---- MODULE Spec2Model ----
(***************************************************************************)
(* Model of elster2mqtt: the Elster frame codec, the ElsterMessage         *)
(* wrapper, the register directory and the ElsterBus.read exchange.        *)
(***************************************************************************)
EXTENDS Integers, Sequences, FiniteSets, TLC

VARIABLES
    cpc,        \* codec exercise: "args", "encoded" or "raw"
    cArgs,      \* the (receiver, register, value) handed to the encoder
    cData,      \* the frame under test
    cSize,      \* the size handed to the decoder
    cOut        \* what the decoder returned or raised

codecVars == << cpc, cArgs, cData, cSize, cOut >>

VARIABLES
    sender,     \* ElsterBus.sender: the session's own bus address
    config,     \* ElsterBus.config: the register directory
    simulate,   \* ElsterBus.simulate
    queue,      \* frames the transport holds for bus.recv, oldest first
    sent,       \* frames handed to bus.send during the current read
    pc,         \* where the caller is: "idle", "loop", "recv", "done", "failed"
    call,       \* read's locals: name, receiver, register, fmt, timeout
    start_time, \* read's start_time
    recvAt,     \* the time at which the pending bus.recv was called
    recvTimeout,\* the timeout handed to the pending bus.recv
    m,          \* what bus.recv returned last
    result,     \* the message read returned
    err,        \* the exception read raised
    formatted,  \* what msg.formatted_value gave the caller
    now,        \* time.time()
    delivered,  \* number of frames the transport has delivered so far
    reads,      \* number of reads that have returned to the caller
    seen,       \* frames bus.recv returned during the current read
    waited,     \* time spent blocked in bus.recv during the current read
    recvCalls   \* number of bus.recv calls of the current read

busVars == << sender, config, simulate, queue, sent, pc, call, start_time,
              recvAt, recvTimeout, m, result, err, formatted, now, delivered,
              reads, seen, waited, recvCalls >>

VARIABLES
    mpc,        \* where main is: "off", "start", "bus", "body", "exited"
    args,       \* the parsed command line
    mqtt,       \* the MqttClient: client, topic_prefix, simulate
    handle,     \* ElsterBus.bus: "none", "open" or "shut" (shutdown called)
    todo,       \* names the loop over elster.config has still to read
    info,       \* main's info dict, as <<key, value>> in key order
    published,  \* calls of mqttc.publish: topic and payload
    sunk,       \* what reached the MQTT client's publish
    mainErr,    \* the exception that left main
    returned    \* name, raw value and format of each message read returned

mainVars == << mpc, args, mqtt, handle, todo, info, published, sunk, mainErr,
               returned >>

vars == << codecVars, busVars, mainVars >>

(***************************************************************************)
(* Python values                                                           *)
(***************************************************************************)

\* Python's None where an integer is expected (all real values are >= 0).
None == 0 - 1

TYPE_REQUEST == 1
TYPE_RESPONSE == 2

\* Python integer bit operators on non-negative integers.
RECURSIVE BitAnd(_, _)
BitAnd(a, b) ==
    IF a = 0 \/ b = 0 THEN 0
    ELSE (a % 2) * (b % 2) + 2 * BitAnd(a \div 2, b \div 2)

RECURSIVE BitOr(_, _)
BitOr(a, b) ==
    IF a = 0 THEN b
    ELSE IF b = 0 THEN a
    ELSE (IF (a % 2) + (b % 2) > 0 THEN 1 ELSE 0) + 2 * BitOr(a \div 2, b \div 2)

Shr(a, n) == a \div (2 ^ n)
Shl(a, n) == a * (2 ^ n)

(***************************************************************************)
(* Frame codec                                                             *)
(***************************************************************************)

\* A plausible slip: byte 1 keeps eight address bits instead of seven.
encode_elster_data_mask8(receiver, register, value) ==
    LET msg_type == IF value = None THEN TYPE_REQUEST ELSE TYPE_RESPONSE
        head == << BitOr(BitAnd(Shr(receiver, 3), 240), BitAnd(msg_type, 15)),
                   BitAnd(receiver, 255),
                   250,
                   BitAnd(Shr(register, 8), 255),
                   BitAnd(register, 255) >>
    IN  IF value = None
        THEN head
        ELSE head \o << BitAnd(Shr(value, 8), 255), BitAnd(value, 255) >>

\* encode_elster_data(receiver, register, value=None)
encode_elster_data(receiver, register, value) ==
    LET msg_type == IF value = None THEN TYPE_REQUEST ELSE TYPE_RESPONSE
        head == << BitOr(BitAnd(Shr(receiver, 3), 240), BitAnd(msg_type, 15)),
                   BitAnd(receiver, 127),
                   250,
                   BitAnd(Shr(register, 8), 255),
                   BitAnd(register, 255) >>
    IN  IF value = None
        THEN head
        ELSE head \o << BitAnd(Shr(value, 8), 255), BitAnd(value, 255) >>

\* The result of a decode: the 4-tuple, or the exception raised.
Decoded(t, rc, rg, v) ==
    [err |-> "ok", msg_type |-> t, receiver |-> rc, register |-> rg, value |-> v]
DecodeError(e) ==
    [err |-> e, msg_type |-> None, receiver |-> None, register |-> None, value |-> None]

\* The fields decode computes once both checks have passed.
decode_fields(data) ==
    IF Len(data) < 5
    THEN DecodeError("IndexError")
    ELSE Decoded(BitAnd(data[1], 15),
                 BitOr(Shl(BitAnd(data[1], 240), 3), BitAnd(data[2], 127)),
                 BitOr(Shl(BitAnd(data[4], 255), 8), BitAnd(data[5], 255)),
                 IF Len(data) = 7
                 THEN BitOr(Shl(BitAnd(data[6], 255), 8), BitAnd(data[7], 255))
                 ELSE None)

\* A plausible slip: the receiver's high nibble is shifted by 4, not 3.
decode_elster_data_shift4(data, size) ==
    IF Len(data) # size THEN DecodeError("ElsterDataSizeError")
    ELSE IF Len(data) < 3 THEN DecodeError("IndexError")
    ELSE IF data[3] # 250 THEN DecodeError("ElsterDataByte2Error")
    ELSE IF Len(data) < 5 THEN DecodeError("IndexError")
    ELSE Decoded(BitAnd(data[1], 15),
                 BitOr(Shl(BitAnd(data[1], 240), 4), BitAnd(data[2], 127)),
                 BitOr(Shl(BitAnd(data[4], 255), 8), BitAnd(data[5], 255)),
                 IF Len(data) = 7
                 THEN BitOr(Shl(BitAnd(data[6], 255), 8), BitAnd(data[7], 255))
                 ELSE None)

\* A plausible slip: the sentinel is tested before the size.
decode_elster_data_sentinel_first(data, size) ==
    IF Len(data) < 3 THEN DecodeError("IndexError")
    ELSE IF data[3] # 250 THEN DecodeError("ElsterDataByte2Error")
    ELSE IF Len(data) # size THEN DecodeError("ElsterDataSizeError")
    ELSE decode_fields(data)

\* decode_elster_data(data, size=7); data[i] of the source is data[i+1] here.
decode_elster_data(data, size) ==
    IF Len(data) # size THEN DecodeError("ElsterDataSizeError")
    ELSE IF Len(data) < 3 THEN DecodeError("IndexError")
    ELSE IF data[3] # 250 THEN DecodeError("ElsterDataByte2Error")
    ELSE decode_fields(data)

(***************************************************************************)
(* Text helpers: strings are sequences of one-character strings            *)
(***************************************************************************)

HexDigits ==
    [c \in {"0", "1", "2", "3", "4", "5", "6", "7", "8", "9",
            "a", "b", "c", "d", "e", "f", "A", "B", "C", "D", "E", "F"} |->
        CASE c = "0" -> 0 [] c = "1" -> 1 [] c = "2" -> 2 [] c = "3" -> 3
          [] c = "4" -> 4 [] c = "5" -> 5 [] c = "6" -> 6 [] c = "7" -> 7
          [] c = "8" -> 8 [] c = "9" -> 9
          [] c \in {"a", "A"} -> 10 [] c \in {"b", "B"} -> 11
          [] c \in {"c", "C"} -> 12 [] c \in {"d", "D"} -> 13
          [] c \in {"e", "E"} -> 14 [] c \in {"f", "F"} -> 15]

\* int(s, 16); None stands for the ValueError of a malformed number.
RECURSIVE int16(_)
int16(s) ==
    IF Len(s) = 0 THEN None
    ELSE IF s[Len(s)] \notin DOMAIN HexDigits THEN None
    ELSE IF Len(s) = 1 THEN HexDigits[s[1]]
    ELSE LET hi == int16(SubSeq(s, 1, Len(s) - 1))
         IN  IF hi = None THEN None ELSE 16 * hi + HexDigits[s[Len(s)]]

\* s.split("."): the list of the parts between the dots.
RECURSIVE split_dot(_)
split_dot(s) ==
    IF \A i \in 1 .. Len(s) : s[i] # "."
    THEN << s >>
    ELSE LET k == CHOOSE i \in 1 .. Len(s) :
                      s[i] = "." /\ \A j \in 1 .. i - 1 : s[j] # "."
         IN  << SubSeq(s, 1, k - 1) >> \o split_dot(SubSeq(s, k + 1, Len(s)))

(***************************************************************************)
(* ElsterMessage                                                           *)
(***************************************************************************)

\* A can.Message as the transport carries it; NoMsg is Python's None.
CanMessage(id, data) == [arbitration_id |-> id, data |-> data]
NoMsg == CanMessage(None, << >>)

ElsterErrors ==
    {"ElsterDataSizeError", "ElsterDataByte2Error", "ElsterInvalidName",
     "ElsterReadTimedOut"}

MessageError(e) ==
    [err |-> e, sender |-> None, type |-> None, receiver |-> None,
     register |-> None, value |-> None, fmt |-> "", data |-> << >>]
NoMessage == MessageError("unset")

\* A plausible slip: a received message does not keep the format.
ElsterMessage_drops_fmt(snd, receiver, register, msg, fmt) ==
    IF msg # NoMsg
    THEN LET d == decode_elster_data(msg.data, 7)
         IN  IF d.err # "ok"
             THEN MessageError(d.err)
             ELSE [err |-> "ok", sender |-> msg.arbitration_id, type |-> d.msg_type,
                   receiver |-> d.receiver, register |-> d.register,
                   value |-> d.value, fmt |-> "", data |-> msg.data]
    ELSE IF receiver = None \/ register = None
         THEN MessageError("TypeError")
         ELSE [err |-> "ok", sender |-> snd, type |-> TYPE_REQUEST,
               receiver |-> receiver, register |-> register, value |-> None,
               fmt |-> fmt, data |-> encode_elster_data(receiver, register, None)]

\* ElsterMessage.__init__(sender, receiver, register, msg, fmt)
ElsterMessage(snd, receiver, register, msg, fmt) ==
    IF msg # NoMsg
    THEN LET d == decode_elster_data(msg.data, 7)
         IN  IF d.err # "ok"
             THEN MessageError(d.err)
             ELSE [err |-> "ok", sender |-> msg.arbitration_id, type |-> d.msg_type,
                   receiver |-> d.receiver, register |-> d.register,
                   value |-> d.value, fmt |-> fmt, data |-> msg.data]
    ELSE IF receiver = None \/ register = None
         THEN MessageError("TypeError")
         ELSE [err |-> "ok", sender |-> snd, type |-> TYPE_REQUEST,
               receiver |-> receiver, register |-> register, value |-> None,
               fmt |-> fmt, data |-> encode_elster_data(receiver, register, None)]

\* str(n) for n >= 0, as a sequence of characters.
RECURSIVE DecStr(_)
DecStr(n) ==
    LET digit == << "0", "1", "2", "3", "4", "5", "6", "7", "8", "9" >>[(n % 10) + 1]
    IN  IF n < 10 THEN << digit >> ELSE DecStr(n \div 10) \o << digit >>

\* The n low decimal digits of k, zero padded.
RECURSIVE Digits(_, _)
Digits(k, n) ==
    IF n = 0 THEN << >> ELSE Digits(k \div 10, n - 1) \o DecStr(k % 10)

FormatInt(v) == [err |-> "ok", type |-> "int", int |-> v, str |-> << >>]
FormatStr(t) == [err |-> "ok", type |-> "str", int |-> None, str |-> t]
FormatError(e) == [err |-> e, type |-> "", int |-> None, str |-> << >>]
NoFormatted == FormatError("unset")

RecognizedFormats == {"dec_val", "mil_val", "little_endian"}

\* A plausible slip: little_endian renders the value without the swap.
formatted_value_unswapped(msg) ==
    IF msg.fmt = "" THEN FormatInt(msg.value)
    ELSE IF msg.value = None THEN FormatError("TypeError")
    ELSE IF msg.fmt = "dec_val"
         THEN FormatStr(DecStr(msg.value \div 10) \o << "." >> \o Digits(msg.value, 1))
    ELSE IF msg.fmt = "mil_val"
         THEN FormatStr(DecStr(msg.value \div 1000) \o << "." >> \o Digits(msg.value, 3))
    ELSE IF msg.fmt = "little_endian"
         THEN FormatStr(DecStr(msg.value))
    ELSE FormatError("KeyError")

\* ElsterMessage.formatted_value
formatted_value(msg) ==
    IF msg.fmt = "" THEN FormatInt(msg.value)
    ELSE IF msg.value = None THEN FormatError("TypeError")
    ELSE IF msg.fmt = "dec_val"
         THEN FormatStr(DecStr(msg.value \div 10) \o << "." >> \o Digits(msg.value, 1))
    ELSE IF msg.fmt = "mil_val"
         THEN FormatStr(DecStr(msg.value \div 1000) \o << "." >> \o Digits(msg.value, 3))
    ELSE IF msg.fmt = "little_endian"
         THEN FormatStr(DecStr(BitOr(Shl(BitAnd(msg.value, 255), 8), Shr(msg.value, 8))))
    ELSE FormatError("KeyError")

(***************************************************************************)
(* ElsterBus: construction and the register directory                      *)
(***************************************************************************)

\* A plausible slip: the first entry of a name is kept.
RECURSIVE dict_by_name_first_wins(_)
dict_by_name_first_wins(data) ==
    IF Len(data) = 0
    THEN [keys |-> << >>, at |-> << >>]
    ELSE LET d == dict_by_name_first_wins(SubSeq(data, 1, Len(data) - 1))
             x == data[Len(data)]
             had == \E i \in 1 .. Len(d.keys) : d.keys[i] = x.name
         IN  IF had THEN d
             ELSE [keys |-> Append(d.keys, x.name), at |-> Append(d.at, x)]

\* {x["name"]: x for x in data}: a later entry replaces an earlier one of the
\* same name and keeps the earlier one's place in the key order.
RECURSIVE dict_by_name(_)
dict_by_name(data) ==
    IF Len(data) = 0
    THEN [keys |-> << >>, at |-> << >>]
    ELSE LET d == dict_by_name(SubSeq(data, 1, Len(data) - 1))
             x == data[Len(data)]
             had == \E i \in 1 .. Len(d.keys) : d.keys[i] = x.name
             keys == IF had THEN d.keys ELSE Append(d.keys, x.name)
         IN  [keys |-> keys,
              at |-> [i \in 1 .. Len(keys) |-> IF keys[i] = x.name THEN x ELSE d.at[i]]]

\* self.config.get(name): the entry's position in the directory, 0 for None.
dict_get(cfg, name) ==
    IF \E i \in 1 .. Len(cfg.keys) : cfg.keys[i] = name
    THEN CHOOSE i \in 1 .. Len(cfg.keys) : cfg.keys[i] = name
    ELSE 0

Lookup(e, rc, rg, f) == [err |-> e, receiver |-> rc, register |-> rg, fmt |-> f]

\* A plausible slip: an unknown name falls back to the first entry.
config_lookup_default(cfg, name) ==
    LET k == IF dict_get(cfg, name) = 0 THEN 1 ELSE dict_get(cfg, name)
        parts == split_dot(cfg.at[k].index)
    IN  IF Len(parts) # 2 THEN Lookup("ValueError", None, None, "")
        ELSE IF int16(parts[1]) = None \/ int16(parts[2]) = None
        THEN Lookup("ValueError", None, None, "")
        ELSE Lookup("ok", int16(parts[1]), int16(parts[2]), cfg.at[k].format)

\* ElsterBus.config_lookup(name)
config_lookup(cfg, name) ==
    LET k == dict_get(cfg, name)
    IN  IF k = 0 THEN Lookup("ElsterInvalidName", None, None, "")
        ELSE LET parts == split_dot(cfg.at[k].index)
             IN  IF Len(parts) # 2 THEN Lookup("ValueError", None, None, "")
                 ELSE IF int16(parts[1]) = None \/ int16(parts[2]) = None
                 THEN Lookup("ValueError", None, None, "")
                 ELSE Lookup("ok", int16(parts[1]), int16(parts[2]), cfg.at[k].format)

\* The configuration files the model starts from.
Entry(name, index, format) == [name |-> name, index |-> index, format |-> format]

HouseConfig ==
    [sender |-> << "1", "2", "3" >>,
     data |-> << Entry("FOO", << "1", "8", "0", ".", "0", "0", "0", "1" >>, "dec_val"),
                 Entry("BAR", << "3", "0", "1", ".", "D", "E", "A", "F" >>, "little_endian"),
                 Entry("FOO", << "1", "8", "0", ".", "d", "e", "a", "f" >>, ""),
                 Entry("BAZ", << "3", "0", "1", ".", "0", "0", "0", "1" >>, "bogus") >>]

Configs == {HouseConfig}

(***************************************************************************)
(* ElsterBus.read                                                          *)
(***************************************************************************)

\* Frames the transport may deliver over the whole run.
MaxDeliver == 2
\* Last tick of the clock.
MaxTime == 3
\* Reads the caller may start.
MaxReads == 2

Timeouts == {1, 2}
ReadNames == {"FOO", "BAR", "BAZ", "foo"}
ReadIndexes == {<< 384, 57007 >>}

\* What the bus carries while a read waits: the answers of the two devices,
\* traffic of other exchanges and damaged frames.
BusFrames ==
    { CanMessage(384, encode_elster_data(291, 57007, 57005)),
      CanMessage(384, encode_elster_data(291, 1, 0)),
      CanMessage(769, encode_elster_data(291, 57007, 4660)),
      CanMessage(384, encode_elster_data(1110, 57007, 47806)),
      CanMessage(384, << 33, 35, 250, 222, 175, 186, 190 >>),
      CanMessage(291, encode_elster_data(384, 57007, None)),
      CanMessage(384, << 0, 0, 0, 0, 0, 0, 0 >>) }

NoCall == [name |-> "", receiver |-> None, register |-> None, fmt |-> "", timeout |-> 0]

\* A plausible slip: the request goes out twice.
bus_send_twice(out, msg) ==
    out \o << CanMessage(msg.sender, msg.data), CanMessage(msg.sender, msg.data) >>

\* self.bus.send(msg): the message's envelope and payload reach the transport.
bus_send(out, msg) == Append(out, CanMessage(msg.sender, msg.data))

\* The timeout read hands to bus.recv on each iteration.
recv_timeout(timeout, start, t) == timeout

\* A plausible slip: the frame's own destination is not compared.
match_without_receiver(msg, receiver, snd) ==
    msg.type = TYPE_RESPONSE /\ msg.sender = receiver

\* A plausible slip: the kind of the message is not tested.
match_any_kind(msg, receiver, snd) ==
    msg.sender = receiver /\ msg.receiver = snd

\* The test that makes a decoded frame the response of this read.
match(msg, receiver, snd) ==
    msg.type = TYPE_RESPONSE /\ msg.sender = receiver /\ msg.receiver = snd

\* A plausible slip: only the size error is caught.
caught_size_only(e) == e = "ElsterDataSizeError"

\* except ElsterError
caught(e) == e \in ElsterErrors

\* ElsterBus(c, simulate) for some simulate, nothing read yet.
BusInitWith(c) ==
    /\ sender = int16(c.sender)
    /\ config = dict_by_name(c.data)
    /\ simulate \in BOOLEAN
    /\ queue = << >>
    /\ sent = << >>
    /\ pc = "idle"
    /\ call = NoCall
    /\ start_time = 0
    /\ recvAt = 0
    /\ recvTimeout = 0
    /\ m = NoMsg
    /\ result = NoMessage
    /\ err = ""
    /\ formatted = NoFormatted
    /\ now = 0
    /\ delivered = 0
    /\ reads = 0
    /\ seen = << >>
    /\ waited = 0
    /\ recvCalls = 0

BusInit == \E c \in Configs : BusInitWith(c)

\* read(name, receiver, register, fmt, timeout) up to the first test of the
\* while condition: lookup, request construction, simulation, send.
Read(name, receiver, register, fmt, timeout) ==
    /\ pc = "idle"
    /\ reads < MaxReads
    /\ reads' = reads + 1
    /\ LET lk == IF name # ""
                 THEN config_lookup(config, name)
                 ELSE Lookup("ok", receiver, register, fmt)
           msg == ElsterMessage(sender, lk.receiver, lk.register, NoMsg, lk.fmt)
       IN  /\ call' = IF lk.err = "ok"
                      THEN [name |-> name, receiver |-> lk.receiver,
                            register |-> lk.register, fmt |-> lk.fmt,
                            timeout |-> timeout]
                      ELSE [name |-> name, receiver |-> receiver,
                            register |-> register, fmt |-> fmt, timeout |-> timeout]
           /\ IF lk.err # "ok"
              THEN /\ pc' = "failed"
                   /\ err' = lk.err
                   /\ UNCHANGED << result, sent, start_time >>
              ELSE IF msg.err # "ok"
              THEN /\ pc' = "failed"
                   /\ err' = msg.err
                   /\ UNCHANGED << result, sent, start_time >>
              ELSE IF simulate
              THEN /\ pc' = "done"
                   /\ result' = [msg EXCEPT !.value = 12345]
                   /\ UNCHANGED << err, sent, start_time >>
              ELSE /\ pc' = "loop"
                   /\ sent' = bus_send(sent, msg)
                   /\ start_time' = now
                   /\ UNCHANGED << err, result >>
    /\ UNCHANGED << sender, config, simulate, queue, recvAt, recvTimeout, m,
                    formatted, now, delivered, seen, waited, recvCalls >>

\* while time.time() < (start_time + timeout): either bus.recv is called, or
\* the loop ends and read raises ElsterReadTimedOut.
LoopCheck ==
    /\ pc = "loop"
    /\ IF now < start_time + call.timeout
       THEN /\ pc' = "recv"
            /\ recvAt' = now
            /\ recvTimeout' = recv_timeout(call.timeout, start_time, now)
            /\ recvCalls' = recvCalls + 1
            /\ UNCHANGED err
       ELSE /\ pc' = "failed"
            /\ err' = "ElsterReadTimedOut"
            /\ UNCHANGED << recvAt, recvTimeout, recvCalls >>
    /\ UNCHANGED << sender, config, simulate, queue, sent, call, start_time, m,
                    result, formatted, now, delivered, reads, seen, waited >>

\* The body of the loop once bus.recv has returned got: the message is
\* built from it and tested.
Process(got) ==
    LET msg == ElsterMessage(None, None, None, got, call.fmt)
    IN  /\ m' = got
        /\ waited' = waited + (now - recvAt)
        /\ IF msg.err = "ok"
           THEN IF match(msg, call.receiver, sender)
                THEN pc' = "done" /\ result' = msg /\ UNCHANGED err
                ELSE pc' = "loop" /\ UNCHANGED << result, err >>
           ELSE IF caught(msg.err)
                THEN pc' = "loop" /\ UNCHANGED << result, err >>
                ELSE pc' = "failed" /\ err' = msg.err /\ UNCHANGED result

\* bus.recv returns the oldest frame the transport holds.
RecvFrame ==
    /\ pc = "recv"
    /\ queue # << >>
    /\ queue' = Tail(queue)
    /\ seen' = Append(seen, Head(queue))
    /\ Process(Head(queue))
    /\ UNCHANGED << sender, config, simulate, sent, call, start_time, recvAt,
                    recvTimeout, formatted, now, delivered, reads, recvCalls >>

\* bus.recv returns None: nothing arrived within the timeout it was given.
RecvNone ==
    /\ pc = "recv"
    /\ queue = << >>
    /\ now >= recvAt + recvTimeout
    /\ Process(NoMsg)
    /\ UNCHANGED << sender, config, simulate, queue, sent, call, start_time,
                    recvAt, recvTimeout, formatted, now, delivered, reads, seen,
                    recvCalls >>

\* The caller renders the message it got: msg.formatted_value.
FormatValue ==
    /\ pc = "done"
    /\ formatted = NoFormatted
    /\ formatted' = formatted_value(result)
    /\ UNCHANGED << sender, config, simulate, queue, sent, pc, call, start_time,
                    recvAt, recvTimeout, m, result, err, now, delivered, reads,
                    seen, waited, recvCalls >>

\* The caller takes the outcome and is free to read again.
Return ==
    /\ pc \in {"done", "failed"}
    /\ reads < MaxReads
    /\ pc' = "idle"
    /\ call' = NoCall
    /\ sent' = << >>
    /\ seen' = << >>
    /\ m' = NoMsg
    /\ result' = NoMessage
    /\ err' = ""
    /\ formatted' = NoFormatted
    /\ start_time' = 0
    /\ recvAt' = 0
    /\ recvTimeout' = 0
    /\ waited' = 0
    /\ recvCalls' = 0
    /\ UNCHANGED << sender, config, simulate, queue, now, delivered, reads >>

\* A frame arrives at the transport while a read is under way.
Deliver(f) ==
    /\ pc \in {"loop", "recv"}
    /\ delivered < MaxDeliver
    /\ delivered' = delivered + 1
    /\ queue' = Append(queue, f)
    /\ UNCHANGED << sender, config, simulate, sent, pc, call, start_time, recvAt,
                    recvTimeout, m, result, err, formatted, now, reads, seen,
                    waited, recvCalls >>

\* time.time() advances; a bus.recv that can return does so first.
Tick ==
    /\ pc \in {"loop", "recv"}
    /\ now < MaxTime
    /\ ~ (pc = "recv" /\ (queue # << >> \/ now >= recvAt + recvTimeout))
    /\ now' = now + 1
    /\ UNCHANGED << sender, config, simulate, queue, sent, pc, call, start_time,
                    recvAt, recvTimeout, m, result, err, formatted, delivered,
                    reads, seen, waited, recvCalls >>

(***************************************************************************)
(* main: the session scope, the three modes and the publication            *)
(***************************************************************************)

\* A plausible slip: the name is used as the key unchanged.
str_lower_missing(name) == name

\* str.lower() on the names the model uses.
str_lower(name) ==
    CASE name \in {"FOO", "Foo", "foo"} -> "foo"
      [] name \in {"BAR", "Bar", "bar"} -> "bar"
      [] name \in {"BAZ", "Baz", "baz"} -> "baz"
      [] OTHER -> name

\* info[key] = value on a dict kept as a list of <<key, value>> in key order.
dict_set(d, key, value) ==
    IF \E i \in 1 .. Len(d) : d[i][1] = key
    THEN [i \in 1 .. Len(d) |-> IF d[i][1] = key THEN << key, value >> ELSE d[i]]
    ELSE Append(d, << key, value >>)

\* A plausible slip: __exit__ leaves the bus as it is.
bus_exit_missing(h) == h

\* ElsterBus.__exit__: if self.bus: self.bus.shutdown()
bus_exit(h) == IF h = "open" THEN "shut" ELSE h

\* MqttClient.__exit__: if self.client: self.client.loop_stop()
mqtt_exit(q) == IF q.client = "running" THEN [q EXCEPT !.client = "stopped"] ELSE q

\* MqttClient.publish: the topic gets the prefix; a simulated sink only prints.
mqtt_topic(q, topic) == IF q.topic_prefix # << >> THEN q.topic_prefix \o topic ELSE topic

\* The configuration main runs on: two names, one of them given twice.
PlantConfig ==
    [sender |-> << "1", "2", "3" >>,
     topic_prefix |-> << "elster/" >>,
     data |-> << Entry("FOO", << "1", "8", "0", ".", "0", "0", "0", "1" >>, "dec_val"),
                 Entry("BAR", << "3", "0", "1", ".", "D", "E", "A", "F" >>, "little_endian"),
                 Entry("FOO", << "1", "8", "0", ".", "d", "e", "a", "f" >>, "") >>]

\* The command lines: --name, --index, or neither.
MainArgs ==
    { [mode |-> "name", name |-> "BAR", index |-> << None, None >>],
      [mode |-> "name", name |-> "foo", index |-> << None, None >>],
      [mode |-> "index", name |-> "", index |-> << 384, 57007 >>],
      [mode |-> "all", name |-> "", index |-> << None, None >>] }
NoArgs == [mode |-> "", name |-> "", index |-> << None, None >>]

\* The frames on the bus while main runs: the two devices' answers and a
\* damaged frame.
MainFrames ==
    { CanMessage(384, encode_elster_data(291, 57007, 57005)),
      CanMessage(769, encode_elster_data(291, 57007, 4660)),
      CanMessage(384, << 0, 0, 0, 0, 0, 0, 0 >>) }

NoMqtt == [client |-> "none", topic_prefix |-> << >>, simulate |-> FALSE]

\* No main is running: the session is driven directly, as the tests do.
MainOff ==
    /\ mpc = "off"
    /\ args = NoArgs
    /\ mqtt = NoMqtt
    /\ handle = IF simulate THEN "none" ELSE "open"
    /\ todo = << >>
    /\ info = << >>
    /\ published = << >>
    /\ sunk = << >>
    /\ mainErr = ""
    /\ returned = << >>

CodecIdle ==
    /\ cpc = "args"
    /\ cArgs = [receiver |-> 0, register |-> 0, value |-> None]
    /\ cData = << >>
    /\ cSize = 7
    /\ cOut = DecodeError("unset")

Init == BusInit /\ CodecIdle /\ MainOff

Next ==
    \/ \E name \in ReadNames, timeout \in Timeouts :
           Read(name, None, None, "", timeout) /\ UNCHANGED << codecVars, mainVars >>
    \/ \E ix \in ReadIndexes, timeout \in Timeouts :
           Read("", ix[1], ix[2], "", timeout) /\ UNCHANGED << codecVars, mainVars >>
    \/ LoopCheck /\ UNCHANGED << codecVars, mainVars >>
    \/ RecvFrame /\ UNCHANGED << codecVars, mainVars >>
    \/ RecvNone /\ UNCHANGED << codecVars, mainVars >>
    \/ FormatValue /\ UNCHANGED << codecVars, mainVars >>
    \/ Return /\ UNCHANGED << codecVars, mainVars >>
    \/ \E f \in BusFrames : Deliver(f) /\ UNCHANGED << codecVars, mainVars >>
    \/ Tick /\ UNCHANGED << codecVars, mainVars >>

Spec == Init /\ [][Next]_vars

\* main up to the with statement: arguments parsed, configuration loaded,
\* ElsterBus and MqttClient constructed.
MainInit ==
    /\ BusInitWith(PlantConfig)
    /\ CodecIdle
    /\ mpc = "start"
    /\ args \in MainArgs
    /\ mqtt \in [client : {"none"}, topic_prefix : {PlantConfig.topic_prefix},
                 simulate : BOOLEAN]
    /\ handle = "none"
    /\ todo = << >>
    /\ info = << >>
    /\ published = << >>
    /\ sunk = << >>
    /\ mainErr = ""
    /\ returned = << >>

readVars == << queue, sent, pc, call, start_time, recvAt, recvTimeout, m, result,
               err, formatted, now, delivered, reads, seen, waited, recvCalls >>

\* Leaving the with statement: MqttClient.__exit__, then ElsterBus.__exit__;
\* e is the exception on its way out, "" for none.
MainLeave(e) ==
    /\ mpc' = "exited"
    /\ mainErr' = e
    /\ mqtt' = mqtt_exit(mqtt)
    /\ handle' = bus_exit(handle)

\* ElsterBus.__enter__: can.Bus(...) opens the channel or raises.
MainEnterBus(opens) ==
    /\ mpc = "start"
    /\ IF simulate
       THEN mpc' = "bus" /\ UNCHANGED << handle, mainErr >>
       ELSE IF opens
       THEN mpc' = "bus" /\ handle' = "open" /\ UNCHANGED mainErr
       ELSE mpc' = "exited" /\ mainErr' = "CanError" /\ UNCHANGED handle
    /\ UNCHANGED << args, mqtt, todo, info, published, sunk, returned >>
    /\ UNCHANGED << sender, config, simulate, readVars >>

\* MqttClient.__enter__: connect and loop_start, or connect raises and the
\* with statement runs ElsterBus.__exit__ on the way out.
MainEnterMqtt(connects) ==
    /\ mpc = "bus"
    /\ IF mqtt.simulate
       THEN mpc' = "body" /\ UNCHANGED << mqtt, handle, mainErr >>
       ELSE IF connects
       THEN /\ mpc' = "body"
            /\ mqtt' = [mqtt EXCEPT !.client = "running"]
            /\ UNCHANGED << handle, mainErr >>
       ELSE /\ mpc' = "exited"
            /\ mainErr' = "ConnectionError"
            /\ mqtt' = [mqtt EXCEPT !.client = "created"]
            /\ handle' = bus_exit(handle)
    /\ todo' = IF args.mode = "all" THEN config.keys ELSE << >>
    /\ UNCHANGED << args, info, published, sunk, returned >>
    /\ UNCHANGED << sender, config, simulate, readVars >>

\* elster.read(...) as main calls it: by name, by index, or for the next
\* name of the directory.
MainRead(timeout) ==
    /\ mpc = "body"
    /\ returned = << >> \/ args.mode = "all"
    /\ CASE args.mode = "name" ->
              Read(args.name, None, None, "", timeout) /\ UNCHANGED todo
         [] args.mode = "index" ->
              Read("", args.index[1], args.index[2], "", timeout) /\ UNCHANGED todo
         [] args.mode = "all" ->
              /\ todo # << >>
              /\ Read(Head(todo), None, None, "", timeout)
              /\ todo' = Tail(todo)
    /\ UNCHANGED << mpc, args, mqtt, handle, info, published, sunk, mainErr, returned >>

\* read returned msg: main prints it and returns, or stores the formatted
\* value under the lower-cased name and goes on with the loop.
MainGot ==
    /\ mpc = "body"
    /\ pc = "done"
    /\ returned' = Append(returned, [name |-> call.name, value |-> result.value,
                                     fmt |-> result.fmt])
    /\ formatted' = IF args.mode = "index" THEN FormatInt(result.value)
                    ELSE formatted_value(result)
    /\ IF formatted'.err # "ok"
       THEN MainLeave(formatted'.err) /\ UNCHANGED << info, queue, sent, pc, call, start_time, recvAt,
                                            recvTimeout, m, result, err, now, delivered, reads,
                                            seen, waited, recvCalls >>
       ELSE IF args.mode \in {"name", "index"}
       THEN MainLeave("") /\ UNCHANGED << info, queue, sent, pc, call, start_time, recvAt,
                                            recvTimeout, m, result, err, now, delivered, reads,
                                            seen, waited, recvCalls >>
       ELSE /\ info' = dict_set(info, str_lower(call.name), formatted')
            /\ pc' = "idle"
            /\ UNCHANGED << mpc, mqtt, handle, mainErr >>
            /\ UNCHANGED << queue, sent, call, start_time, recvAt, recvTimeout, m,
                            result, err, now, delivered, reads, seen, waited,
                            recvCalls >>
    /\ UNCHANGED << args, todo, published, sunk >>
    /\ UNCHANGED << sender, config, simulate >>

\* read raised: the exception leaves the with statement and main.
MainRaised ==
    /\ mpc = "body"
    /\ pc = "failed"
    /\ MainLeave(err)
    /\ UNCHANGED << args, todo, info, published, sunk, returned >>
    /\ UNCHANGED << sender, config, simulate, readVars >>

\* The loop over the directory is over: mqttc.publish("info", json.dumps(info)),
\* and main leaves the with statement.
MainPublish ==
    /\ mpc = "body"
    /\ args.mode = "all"
    /\ pc = "idle"
    /\ todo = << >>
    /\ published' = Append(published, [topic |-> mqtt_topic(mqtt, << "info" >>),
                                       payload |-> info])
    /\ sunk' = IF mqtt.simulate THEN sunk
               ELSE Append(sunk, [topic |-> mqtt_topic(mqtt, << "info" >>),
                                  payload |-> info])
    /\ MainLeave("")
    /\ UNCHANGED << args, todo, info, returned >>
    /\ UNCHANGED << sender, config, simulate, readVars >>

MainNext ==
    \/ \E opens \in BOOLEAN : MainEnterBus(opens) /\ UNCHANGED codecVars
    \/ \E connects \in BOOLEAN : MainEnterMqtt(connects) /\ UNCHANGED codecVars
    \/ \E timeout \in Timeouts : MainRead(timeout) /\ UNCHANGED codecVars
    \/ MainGot /\ UNCHANGED codecVars
    \/ MainRaised /\ UNCHANGED codecVars
    \/ MainPublish /\ UNCHANGED codecVars
    \/ LoopCheck /\ UNCHANGED << codecVars, mainVars >>
    \/ RecvFrame /\ UNCHANGED << codecVars, mainVars >>
    \/ RecvNone /\ UNCHANGED << codecVars, mainVars >>
    \/ \E f \in MainFrames : Deliver(f) /\ UNCHANGED << codecVars, mainVars >>
    \/ Tick /\ UNCHANGED << codecVars, mainVars >>

MainSpec == MainInit /\ [][MainNext]_vars

(***************************************************************************)
(* Codec exercise: the encoder and decoder applied to bounded inputs, as   *)
(* tests/test_encode_decode.py applies them.                               *)
(***************************************************************************)

\* Largest frame a CAN message carries.
MaxFrameLen == 8

\* Every 11-bit address, and a few wider ones.
Receivers == 0 .. 2047 \cup {2048, 4095, 65535}
Registers == {0, 255, 256, 57007, 65535, 122543}
Values == {None, 0, 47806, 65535, 113342}
FillBytes == {0, 34, 250, 255}
ExpectedSizes == {5, 7}


BusIdle == BusInit /\ ~ simulate

CodecInit ==
    /\ BusIdle
    /\ MainOff
    /\ cpc = "args"
    /\ cArgs \in [receiver : Receivers, register : Registers, value : Values]
    /\ cData = << >>
    /\ cSize = 7
    /\ cOut = DecodeError("unset")

\* d = encode_elster_data(receiver, register[, value])
Encode ==
    /\ cpc = "args"
    /\ cData' = encode_elster_data(cArgs.receiver, cArgs.register, cArgs.value)
    /\ cpc' = "encoded"
    /\ UNCHANGED << cArgs, cSize, cOut >>

\* A frame written out as a literal, such as [] or [0, 0, 0, 0, 0, 0, 0].
Literal(n, b) ==
    /\ cpc = "args"
    /\ cArgs = [receiver |-> 0, register |-> 0, value |-> None]
    /\ cData' = [i \in 1 .. n |-> b]
    /\ cpc' = "raw"
    /\ UNCHANGED << cArgs, cSize, cOut >>

\* One byte of a literal frame set to another value.
SetByte(i, b) ==
    /\ cpc = "raw"
    /\ cOut = DecodeError("unset")
    /\ i \in 1 .. Len(cData)
    /\ \A j \in 1 .. Len(cData) : cData[j] = cData[1]
    /\ cData' = [cData EXCEPT ![i] = b]
    /\ UNCHANGED << cpc, cArgs, cSize, cOut >>

\* decode_elster_data(d, size=size)
Decode(size) ==
    /\ cpc \in {"encoded", "raw"}
    /\ cOut = DecodeError("unset")
    /\ cSize' = size
    /\ cOut' = decode_elster_data(cData, size)
    /\ UNCHANGED << cpc, cArgs, cData >>

CodecNext ==
    \/ Encode /\ UNCHANGED << busVars, mainVars >>
    \/ \E n \in 0 .. MaxFrameLen, b \in FillBytes : Literal(n, b) /\ UNCHANGED << busVars, mainVars >>
    \/ \E i \in 1 .. MaxFrameLen, b \in FillBytes : SetByte(i, b) /\ UNCHANGED << busVars, mainVars >>
    \/ \E size \in ExpectedSizes : Decode(size) /\ UNCHANGED << busVars, mainVars >>

CodecSpec == CodecInit /\ [][CodecNext]_vars

(***************************************************************************)
(* Kind exercise: one read while the requested device sends frames of      *)
(* every message kind to this session                                      *)
(***************************************************************************)

\* Frames from 0x180 to 0x123 for register 0xdeaf, one for each low nibble
\* of byte 0.
KindFrames ==
    { CanMessage(384, << 32 + k, 35, 250, 222, 175, 222, 173 >>) : k \in 0 .. 15 }

\* The timeout of the one read: the shortest one.
KindTimeout == CHOOSE t \in Timeouts : \A u \in Timeouts : t <= u

KindInit ==
    /\ BusInitWith(HouseConfig)
    /\ ~ simulate
    /\ CodecIdle
    /\ MainOff

KindNext ==
    \/ Read("FOO", None, None, "", KindTimeout) /\ UNCHANGED << codecVars, mainVars >>
    \/ LoopCheck /\ UNCHANGED << codecVars, mainVars >>
    \/ RecvFrame /\ UNCHANGED << codecVars, mainVars >>
    \/ RecvNone /\ UNCHANGED << codecVars, mainVars >>
    \/ \E f \in KindFrames : Deliver(f) /\ UNCHANGED << codecVars, mainVars >>
    \/ Tick /\ UNCHANGED << codecVars, mainVars >>

KindSpec == KindInit /\ [][KindNext]_vars

(***************************************************************************)
(* Format exercise: formatted_value applied to the message a read returned *)
(* for every 16-bit value                                                  *)
(***************************************************************************)

\* The values a response frame can carry in its two value bytes.
RawValues == 0 .. 65535

\* The reads whose message is rendered: FOO has no format, BAR has
\* little_endian.
FormatNames == {"FOO", "BAR"}

\* The calls under way, as read(name, timeout=1) resolved them.
FormatCalls ==
    { LET lk == config_lookup(dict_by_name(HouseConfig.data), name)
      IN  [name |-> name, receiver |-> lk.receiver, register |-> lk.register,
           fmt |-> lk.fmt, timeout |-> 1] : name \in FormatNames }

\* The state in which read(name, timeout=1) has just returned the message
\* of a response that carries v.
FormatInit ==
    /\ sender = int16(HouseConfig.sender)
    /\ config = dict_by_name(HouseConfig.data)
    /\ simulate = FALSE
    /\ queue = << >>
    /\ call \in FormatCalls
    /\ sent = bus_send(<< >>, ElsterMessage(sender, call.receiver, call.register,
                                            NoMsg, call.fmt))
    /\ pc = "done"
    /\ start_time = 0
    /\ recvAt = 0
    /\ recvTimeout = recv_timeout(1, 0, 0)
    /\ \E v \in RawValues :
           m = CanMessage(call.receiver, encode_elster_data(sender, call.register, v))
    /\ result = ElsterMessage(None, None, None, m, call.fmt)
    /\ err = ""
    /\ formatted = NoFormatted
    /\ now = 0
    /\ delivered = 1
    /\ reads = 1
    /\ seen = << m >>
    /\ waited = 0
    /\ recvCalls = 1
    /\ CodecIdle
    /\ MainOff

FormatNext == FormatValue /\ UNCHANGED << codecVars, mainVars >>

FormatSpec == FormatInit /\ [][FormatNext]_vars

(***************************************************************************)
(* Properties                                                              *)
(***************************************************************************)

\* A frame described byte by byte, as the wire format lays it out.
FrameKind(f) == f.data[1] % 16
FrameDest(f) == ((f.data[1] \div 16) * 128) + (f.data[2] % 128)
FrameRegister(f) == (f.data[4] * 256) + f.data[5]
FrameValue(f) == (f.data[6] * 256) + f.data[7]
WellFormed(f) == Len(f.data) = 7 /\ f.data[3] = 250
IsMatching(f) ==
    /\ WellFormed(f)
    /\ FrameKind(f) = 2
    /\ f.arbitration_id = call.receiver
    /\ FrameDest(f) = sender

\* The read went past the lookup and talks to a real transport.
OnTheBus == ~ simulate /\ (pc \in {"loop", "recv", "done"} \/ (pc = "failed" /\ err # "ElsterInvalidName"))

\* C1: a message read returns from the bus is a Response whose envelope
\* source is the address the read was resolved to and whose decoded receiver
\* is the session's own address; so is the frame it was built from.
C1_ReturnedMessageMatches ==
    (pc = "done" /\ ~ simulate) =>
        /\ result.type = 2
        /\ result.sender = call.receiver
        /\ result.receiver = sender
        /\ WellFormed(m)
        /\ FrameKind(m) = 2
        /\ m.arbitration_id = call.receiver
        /\ FrameDest(m) = sender

\* C1 witness: a read returned after it had discarded a frame that came from
\* the right device but was addressed to another session.
C1_Witness ==
    /\ pc = "done"
    /\ ~ simulate
    /\ Len(seen) = 2
    /\ WellFormed(seen[1])
    /\ seen[1].arbitration_id = call.receiver
    /\ FrameDest(seen[1]) # sender

\* C2: a read that was sent and fails, fails with ElsterReadTimedOut and with
\* no other error, also when bus.recv returned None on its timeout.
C2_FailsOnlyWithTimeout ==
    (pc = "failed" /\ Len(sent) = 1) => err = "ElsterReadTimedOut"

\* C3: no malformed or non-matching frame aborts the read; the frames a read
\* received before a matching one were all discarded, and the matching one
\* ends the read, which returns that frame's value.
C3_DiscardsUntilMatch ==
    /\ err \notin {"ElsterDataSizeError", "ElsterDataByte2Error"}
    /\ (pc = "failed" /\ err \notin {"ElsterInvalidName", "ElsterReadTimedOut"}) => m = NoMsg
    /\ \A i \in 1 .. Len(seen) :
           IF IsMatching(seen[i])
           THEN /\ i = Len(seen)
                /\ pc = "done"
                /\ result.value = FrameValue(seen[i])
                /\ result.sender = seen[i].arbitration_id
           ELSE i < Len(seen) \/ pc \in {"loop", "recv"} \/ (pc = "failed" /\ m = NoMsg)
                    \/ (pc = "failed" /\ err = "ElsterReadTimedOut")

\* C3 witness: a read returned the matching response after a malformed frame.
C3_Witness ==
    /\ pc = "done"
    /\ Len(seen) = 2
    /\ ~ WellFormed(seen[1])
    /\ IsMatching(seen[2])
    /\ result.value = 57005

\* C4: decoding an encoded request (size 5) or response (size 7) gives back
\* the kind, the 11-bit destination, the 16-bit register and the 16-bit value
\* (or no value) that were encoded.
C4_DecodeInvertsEncode ==
    ( /\ cpc = "encoded"
      /\ cOut.err # "unset"
      /\ cArgs.receiver <= 2047
      /\ cArgs.register <= 65535
      /\ cArgs.value <= 65535
      /\ cSize = (IF cArgs.value = None THEN 5 ELSE 7) ) =>
        cOut = [err |-> "ok",
                msg_type |-> IF cArgs.value = None THEN 1 ELSE 2,
                receiver |-> cArgs.receiver,
                register |-> cArgs.register,
                value |-> cArgs.value]

\* C4 witness: a response with the largest address and value 0 was encoded
\* and decoded.
C4_Witness ==
    /\ cpc = "encoded"
    /\ cArgs.receiver = 2047
    /\ cArgs.value = 0
    /\ cSize = 7
    /\ cOut.err = "ok"
    /\ cOut.value = 0

\* C5: an encoded frame has 5 bytes (request) or 7 bytes (response), the
\* sentinel 0xFA at index 2, the address nibble and kind in byte 0, the low
\* seven address bits in byte 1, register and value high byte first, and
\* every byte in 0..255; the two test vectors come out byte for byte.
C5_WireFormat ==
    cpc = "encoded" =>
        LET d == cArgs.receiver
            r == cArgs.register
            v == cArgs.value
        IN  /\ Len(cData) = (IF v = None THEN 5 ELSE 7)
            /\ cData[1] = (((d \div 128) % 16) * 16) + (IF v = None THEN 1 ELSE 2)
            /\ cData[2] = d % 128
            /\ cData[3] = 250
            /\ cData[4] = (r \div 256) % 256
            /\ cData[5] = r % 256
            /\ (v # None) => (cData[6] = (v \div 256) % 256 /\ cData[7] = v % 256)
            /\ \A i \in 1 .. Len(cData) : cData[i] \in 0 .. 255
            /\ (d = 291 /\ r = 57007 /\ v = None) => cData = << 33, 35, 250, 222, 175 >>
            /\ (d = 291 /\ r = 57007 /\ v = 47806) =>
                   cData = << 34, 35, 250, 222, 175, 186, 190 >>

\* C5 witness: a response was encoded from inputs wider than the fields.
C5_Witness ==
    /\ cpc = "encoded"
    /\ cArgs = [receiver |-> 65535, register |-> 122543, value |-> 113342]
    /\ Len(cData) = 7

\* C6: with an expected size of 5 or 7, decode raises ElsterDataSizeError for
\* every frame of another length whatever it holds, ElsterDataByte2Error for
\* every frame of that length whose byte 2 is not 0xFA, and decodes every
\* other frame.
C6_DecodeErrors ==
    cOut.err # "unset" =>
        /\ (Len(cData) # cSize) => cOut.err = "ElsterDataSizeError"
        /\ (Len(cData) = cSize /\ cData[3] # 250) => cOut.err = "ElsterDataByte2Error"
        /\ (Len(cData) = cSize /\ cData[3] = 250) => cOut.err = "ok"

\* C6 witness: a frame of the wrong length that also lacks the sentinel was
\* decoded and the size error won.
C6_Witness ==
    /\ cpc = "raw"
    /\ Len(cData) = 5
    /\ cData[3] = 0
    /\ cSize = 7
    /\ cOut.err = "ElsterDataSizeError"

\* C7: a read on a real transport that got past the lookup has sent exactly
\* one frame by the time it first receives and sends none after: a 5-byte Request for the resolved
\* destination and register with the session's address as envelope source.
C7_OneRequestSent ==
    /\ OnTheBus =>
        /\ Len(sent) = 1
        /\ sent[1].arbitration_id = sender
        /\ Len(sent[1].data) = 5
        /\ sent[1].data[3] = 250
        /\ FrameKind(sent[1]) = 1
        /\ FrameDest(sent[1]) = call.receiver
        /\ FrameRegister(sent[1]) = call.register
    /\ (recvCalls > 0 \/ seen # << >>) => Len(sent) = 1

\* C7 witness: a read timed out after it had discarded two frames.
C7_Witness ==
    /\ pc = "failed"
    /\ err = "ElsterReadTimedOut"
    /\ Len(seen) = 2
    /\ Len(sent) = 1

\* C8: every bus.recv is given the time left until the deadline, and the
\* time a read has spent blocked in bus.recv never exceeds its timeout.
C8_RecvGetsRemainingTime ==
    /\ pc = "recv" => recvTimeout = (start_time + call.timeout) - recvAt
    /\ pc = "recv" => waited + (now - recvAt) <= call.timeout
    /\ waited <= call.timeout

\* C9: a read by a name the directory does not hold fails with
\* ElsterInvalidName, having sent nothing and received nothing.
C9_UnknownNameFails ==
    ( /\ pc # "idle"
      /\ call.name # ""
      /\ \A i \in 1 .. Len(config.keys) : config.keys[i] # call.name ) =>
        /\ pc = "failed"
        /\ err = "ElsterInvalidName"
        /\ sent = << >>
        /\ seen = << >>
        /\ recvCalls = 0

\* C9 witness: a read by an unknown name failed while frames were waiting on
\* the transport, and left them there.
C9_Witness ==
    /\ pc = "failed"
    /\ call.name = "foo"
    /\ err = "ElsterInvalidName"
    /\ Len(queue) = 1

\* C10: an entry with an unrecognized format never gets past the loading of
\* the directory, so the format applied to the value a read by name returned
\* from the bus is a recognized one (or none) and applying it does not fail
\* on its name.
C10_FormatRejectedAtLoad ==
    \A i \in 1 .. Len(config.at) :
        (~ simulate /\ formatted.err # "unset" /\ call.name = config.at[i].name) =>
            /\ config.at[i].format \in RecognizedFormats \cup {""}
            /\ formatted.err # "KeyError"

\* The number a string of decimal digits spells.
RECURSIVE DecValue(_)
DecValue(t) ==
    IF Len(t) = 0 THEN 0
    ELSE 10 * DecValue(SubSeq(t, 1, Len(t) - 1))
         + (CHOOSE k \in 0 .. 9 :
                << "0", "1", "2", "3", "4", "5", "6", "7", "8", "9" >>[k + 1] = t[Len(t)])

\* C11: once main has left the session scope, a bus handle it acquired has
\* been shut down, whichever way the scope was left; a handle is shut down
\* only by leaving.
C11_HandleShutDown ==
    /\ mpc = "exited" => handle # "open"
    /\ handle = "shut" => mpc = "exited"
    /\ (mpc \in {"bus", "body"} /\ ~ simulate) => handle = "open"

\* C11 witness: the bus was opened, the connection to the MQTT server
\* failed, and the handle was shut down on the way out.
C11_Witness ==
    /\ mpc = "exited"
    /\ mainErr = "ConnectionError"
    /\ handle = "shut"

\* C12: at most one payload is published; a run over the whole directory
\* that ends without error has published exactly one, to the prefixed topic
\* "info", after the last read returned, holding for each directory name in
\* order its lower-cased name and the formatted value of its read; a run
\* that ends with an error has published nothing.
C12_PublishedOnce ==
    /\ Len(published) <= 1
    /\ (mpc = "exited" /\ args.mode = "all" /\ mainErr = "") => Len(published) = 1
    /\ mainErr # "" => published = << >>
    /\ published # << >> =>
        /\ args.mode = "all"
        /\ pc = "idle"
        /\ todo = << >>
        /\ published[1].topic = << "elster/", "info" >>
        /\ (~ mqtt.simulate) => sunk = published
        /\ Len(returned) = Len(config.keys)
        /\ Len(published[1].payload) = Len(config.keys)
        /\ \A i \in 1 .. Len(config.keys) :
            LET kv == published[1].payload[i]
                r == returned[i]
            IN  /\ r.name = config.keys[i]
                /\ kv[1] = (CASE r.name = "FOO" -> "foo" [] r.name = "BAR" -> "bar")
                /\ r.fmt = "" => (kv[2].type = "int" /\ kv[2].int = r.value)
                /\ r.fmt = "little_endian" =>
                       /\ kv[2].type = "str"
                       /\ DecValue(kv[2].str) = ((r.value % 256) * 256) + (r.value \div 256)

\* C12 witness: both names were read from the bus and the payload reached
\* the MQTT client.
C12_Witness ==
    /\ ~ simulate
    /\ Len(sunk) = 1
    /\ Len(sunk[1].payload) = 2
    /\ sunk[1].payload[1][2].int = 57005

\* C13: the message a read returns from the bus carries the register the
\* read asked for.
C13_RegisterMatches ==
    (pc = "done" /\ ~ simulate) => result.register = call.register

\* C14: a read returns on the first matching frame it receives, with that
\* frame's value and the requested format, and takes that frame only; while
\* no read is waiting, the transport's queue is left as it is.
C14_ReturnsAtFirstMatch ==
    [][ /\ (~ simulate /\ pc # "done" /\ pc' = "done") =>
            /\ queue # << >>
            /\ IsMatching(Head(queue))
            /\ \A i \in 1 .. Len(seen) : ~ IsMatching(seen[i])
            /\ queue' = Tail(queue)
            /\ result'.value = FrameValue(Head(queue))
            /\ result'.fmt = call.fmt
        /\ (~ simulate /\ pc = "recv" /\ queue # << >> /\ IsMatching(Head(queue))
              /\ queue' # queue /\ Len(queue') < Len(queue)) => pc' = "done"
        /\ pc \in {"done", "failed", "idle"} => queue' = queue ]_vars

\* C14 witness: a read returned while a further matching response was still
\* queued on the transport.
C14_Witness ==
    /\ pc = "done"
    /\ ~ simulate
    /\ call.fmt = "little_endian"
    /\ queue # << >>
    /\ IsMatching(Head(queue))

\* C16: the directory holds each name once, with the fields of the last
\* entry of that name; a lookup resolves the exact name only and parses its
\* index as two hexadecimal numbers; the directory and the session's address
\* stay what construction made them.
C16_DirectoryLastWins ==
    /\ sender = 291
    /\ config.keys = << "FOO", "BAR", "BAZ" >>
    /\ config.at = << HouseConfig.data[3], HouseConfig.data[2], HouseConfig.data[4] >>
    /\ pc # "idle" =>
        /\ call.name = "FOO" =>
               (call.receiver = 384 /\ call.register = 57007 /\ call.fmt = "")
        /\ call.name = "BAR" =>
               (call.receiver = 769 /\ call.register = 57007 /\ call.fmt = "little_endian")
        /\ call.name = "BAZ" =>
               (call.receiver = 769 /\ call.register = 1 /\ call.fmt = "bogus")
        /\ call.name = "foo" =>
               (pc = "failed" /\ err = "ElsterInvalidName" /\ call.receiver = None)

\* C16 witness: the second read of the session resolved the name that the
\* entry list holds twice, to the index of its last entry, and returned.
C16_Witness ==
    /\ reads = 2
    /\ pc = "done"
    /\ ~ simulate
    /\ call.name = "FOO"
    /\ call.register = 57007
    /\ delivered = 1

\* C15: every frame of seven bytes with the sentinel decodes without error
\* to the kind in the low nibble of its first byte, whatever that nibble is,
\* and no frame of a kind other than Response ends a read, though its
\* addresses match; such a frame is no error either.
C15_KindPermissive ==
    /\ \A i \in 1 .. Len(seen) :
          LET d == decode_elster_data(seen[i].data, 7)
          IN  WellFormed(seen[i]) =>
                  /\ d.err = "ok"
                  /\ d.msg_type = seen[i].data[1] % 16
                  /\ d.msg_type \in 0 .. 15
    /\ pc = "done" =>
          /\ seen[Len(seen)].data[1] % 16 = 2
          /\ result.type = 2
          /\ \A i \in 1 .. Len(seen) - 1 : seen[i].data[1] % 16 # 2
    /\ pc = "failed" => err \in {"ElsterReadTimedOut", "TypeError"}

\* C15 witness: a frame of kind 15 from the requested device to this session
\* was received and the read went on waiting.
C15_Witness ==
    /\ pc = "loop"
    /\ Len(seen) = 1
    /\ seen[1].data[1] % 16 = 15
    /\ seen[1].arbitration_id = call.receiver
    /\ FrameDest(seen[1]) = sender

\* C17 as stated: little_endian yields the swapped value as an integer.
C17_SwapYieldsInteger ==
    (pc = "done" /\ formatted # NoFormatted) =>
        LET v == result.value
            w == ((v % 256) * 256) + (v \div 256)
        IN  /\ call.fmt = "" => (formatted.type = "int" /\ formatted.int = v)
            /\ call.fmt = "little_endian" =>
                   /\ formatted.type = "int"
                   /\ formatted.int = w
                   /\ w \in 0 .. 65535
                   /\ ((w % 256) * 256) + (w \div 256) = v

\* C17 (amended): for every raw value v in [0, 65535], no format yields the
\* integer v itself, and little_endian yields the decimal string, without
\* leading zeros, of the integer ((v & 0xFF) << 8) | (v >> 8), which lies in
\* [0, 65535] and which swapped again gives back v.
C17_SwapYieldsDecimalString ==
    (pc = "done" /\ formatted # NoFormatted) =>
        LET v == result.value
            w == ((v % 256) * 256) + (v \div 256)
        IN  /\ v \in 0 .. 65535
            /\ call.fmt = "" => (formatted.type = "int" /\ formatted.int = v)
            /\ call.fmt = "little_endian" =>
                   /\ formatted.type = "str"
                   /\ Len(formatted.str) \in 1 .. 5
                   /\ \A i \in 1 .. Len(formatted.str) :
                          formatted.str[i] \in
                              {"0", "1", "2", "3", "4", "5", "6", "7", "8", "9"}
                   /\ (Len(formatted.str) > 1 => formatted.str[1] # "0")
                   /\ DecValue(formatted.str) = w
                   /\ w \in 0 .. 65535
                   /\ ((w % 256) * 256) + (w \div 256) = v

\* C17 witness: 0x1234 read with little_endian was rendered as "13330", the
\* decimal string of 0x3412.
C17_Witness ==
    /\ pc = "done"
    /\ call.fmt = "little_endian"
    /\ result.value = 4660
    /\ formatted.err = "ok"
    /\ formatted.str = << "1", "3", "3", "3", "0" >>

====
